---- MODULE Spec2Model ----
(***************************************************************************)
(* Model of app.py: a Flask application that classifies free-text reviews  *)
(* by keyword matching and keeps them in one SQLite table.                 *)
(*                                                                         *)
(* Text is a sequence of Unicode code points.  Sentiment labels and the    *)
(* ?sentiment= filter are strings.  Every request runs in its own Flask    *)
(* application context and therefore on its own SQLite connection; the     *)
(* database file, its lock and its sqlite_sequence row are shared.         *)
(***************************************************************************)
EXTENDS Integers, Sequences, FiniteSets, TLC

(***************************************************************************)
(* Bounds of the model.                                                    *)
(***************************************************************************)
NumReqs == 2      \* request contexts that can be in flight at once
MaxRequests == 3  \* requests received over one behaviour
MaxClock == 1     \* readings of datetime.utcnow() are 0..MaxClock
MaxPieces == 3    \* pieces concatenated into a text given to check()

Reqs == 1..NumReqs

(***************************************************************************)
(* SentimentChecker                                                        *)
(***************************************************************************)
\* "хорош", "люблю"
POSITIVE == << <<1093, 1086, 1088, 1086, 1096>>,
               <<1083, 1102, 1073, 1083, 1102>> >>

\* "плохо", "ненавиж"
NEGATIVE == << <<1087, 1083, 1086, 1093, 1086>>,
               <<1085, 1077, 1085, 1072, 1074, 1080, 1078>> >>

\* str.lower() on one code point, for ASCII and the Cyrillic block.
LowerChar(c) ==
    IF c >= 65 /\ c <= 90 THEN c + 32
    ELSE IF c >= 1040 /\ c <= 1071 THEN c + 32
    ELSE IF c >= 1024 /\ c <= 1039 THEN c + 80
    ELSE c

\* str.lower()
Lower(s) == [i \in 1..Len(s) |-> LowerChar(s[i])]

\* s[i : i + len(sub)] == sub
MatchAt(s, sub, i) ==
    /\ i + Len(sub) - 1 <= Len(s)
    /\ SubSeq(s, i, i + Len(sub) - 1) = sub

RECURSIVE CountFromOverlapping(_, _, _)
CountFromOverlapping(s, sub, i) ==
    IF i + Len(sub) - 1 > Len(s) THEN 0
    ELSE IF MatchAt(s, sub, i) THEN 1 + CountFromOverlapping(s, sub, i + 1)
    ELSE CountFromOverlapping(s, sub, i + 1)

\* str.count(sub) scanning from index i: after a match the scan resumes
\* behind the match.
RECURSIVE CountFrom(_, _, _)
CountFrom(s, sub, i) ==
    IF i + Len(sub) - 1 > Len(s) THEN 0
    ELSE IF MatchAt(s, sub, i) THEN 1 + CountFrom(s, sub, i + Len(sub))
    ELSE CountFrom(s, sub, i + 1)

\* str.count(sub)
Count(s, sub) == CountFrom(s, sub, 1)

\* sum(lowered.count(m) for m in markers)
RECURSIVE SumCounts(_, _, _)
SumCounts(lowered, markers, k) ==
    IF k > Len(markers) THEN 0
    ELSE Count(lowered, markers[k]) + SumCounts(lowered, markers, k + 1)

\* SentimentChecker.check
check(text) ==
    LET lowered == Lower(text)
        pos_count == SumCounts(lowered, POSITIVE, 1)
        neg_count == SumCounts(lowered, NEGATIVE, 1)
    IN  IF pos_count > neg_count THEN "positive"
        ELSE IF neg_count > pos_count THEN "negative"
        ELSE "neutral"

(***************************************************************************)
(* Values                                                                  *)
(***************************************************************************)
\* Optional[int] = None of Review.id; rowids start at 1.
None == 0

\* A JSON value of the request body: null or a string.
JsonNull == [type |-> "NoneType", value |-> <<>>]
JsonStr(s) == [type |-> "str", value |-> s]

\* Python truthiness of `not v` for None and str.
Falsy(v) == v.type = "NoneType" \/ Len(v.value) = 0

\* dict.get(key, None) on the parsed JSON object.
Get(data, key) == IF key \in DOMAIN data THEN data[key] ELSE JsonNull

\* Review(text=..., created_at=..., sentiment=...), id left at its default.
Review(text, sentiment, created_at) ==
    [text |-> text, sentiment |-> sentiment, created_at |-> created_at, id |-> None]

NoReview == Review(<<>>, "", 0)

(***************************************************************************)
(* The database file: table reviews keyed by rowid, and the AUTOINCREMENT  *)
(* high-water mark of sqlite_sequence.                                     *)
(***************************************************************************)
NoTable == [exists |-> FALSE, reviews |-> <<>>, seq |-> 0]

init_db_recreate(d) == [exists |-> TRUE, reviews |-> <<>>, seq |-> 0]

\* CREATE TABLE IF NOT EXISTS reviews (...); commit
init_db(d) ==
    IF d.exists THEN d ELSE [exists |-> TRUE, reviews |-> <<>>, seq |-> 0]

Max(a, b) == IF a >= b THEN a ELSE b

RECURSIVE MaxOf(_)
MaxOf(S) ==
    IF S = {} THEN 0
    ELSE LET x == CHOOSE y \in S : TRUE IN Max(x, MaxOf(S \ {x}))

\* id INTEGER PRIMARY KEY AUTOINCREMENT: one more than the largest rowid the
\* table has ever held.
NextRowid(d) == Max(d.seq, MaxOf(DOMAIN d.reviews)) + 1

\* The parameter tuple bound to (text, sentiment, created_at).
InsertParams(review) == <<review.text, review.sentiment, review.created_at>>

\* INSERT INTO reviews (text, sentiment, created_at) VALUES (?, ?, ?) applied
\* to the connection's view d of the file.
SqlInsert(d, params) ==
    LET rowid == NextRowid(d)
    IN  [d EXCEPT !.reviews = (rowid :> params) @@ d.reviews, !.seq = rowid]

\* The rows of a table scan, in rowid order, as (id, text, sentiment, created_at).
RECURSIVE ScanFrom(_, _)
ScanFrom(d, ids) ==
    IF ids = {} THEN <<>>
    ELSE LET lo == CHOOSE i \in ids : \A j \in ids : i <= j
         IN  << <<lo>> \o d.reviews[lo] >> \o ScanFrom(d, ids \ {lo})

\* SELECT * FROM reviews
SelectAll(d) == ScanFrom(d, DOMAIN d.reviews)

SelectWhereUnfiltered(d, sentiment) == ScanFrom(d, DOMAIN d.reviews)

\* SELECT * FROM reviews WHERE sentiment = ?
SelectWhereSentiment(d, sentiment) ==
    ScanFrom(d, {i \in DOMAIN d.reviews : d.reviews[i][2] = sentiment})

\* Column names of a sqlite3.Row of reviews.
RowKeys == <<"id", "text", "sentiment", "created_at">>

\* dict(row)
RowDict(row) ==
    [k \in {RowKeys[i] : i \in 1..Len(RowKeys)} |->
        row[CHOOSE i \in 1..Len(RowKeys) : RowKeys[i] = k]]

ReviewFromRowNoId(row) ==
    [text |-> row[2], sentiment |-> row[3], created_at |-> row[4], id |-> None]

\* Review(**dict(row))
ReviewFromRow(row) ==
    LET d == RowDict(row)
    IN  [text |-> d.text, sentiment |-> d.sentiment,
         created_at |-> d.created_at, id |-> d.id]

\* ReviewRepository.fetch_all on a connection whose view of the file is d.
fetch_all(d) == [i \in 1..Len(SelectAll(d)) |-> ReviewFromRow(SelectAll(d)[i])]

\* ReviewRepository.fetch_by_sentiment
fetch_by_sentiment(d, sentiment) ==
    [i \in 1..Len(SelectWhereSentiment(d, sentiment)) |->
        ReviewFromRow(SelectWhereSentiment(d, sentiment)[i])]

get_reviews_none_only(d, sentiment) == fetch_by_sentiment(d, sentiment)

\* ReviewService.get_reviews_by_sentiment
get_reviews_by_sentiment(d, sentiment) ==
    IF sentiment = "" THEN fetch_all(d) ELSE fetch_by_sentiment(d, sentiment)

(***************************************************************************)
(* State                                                                   *)
(*                                                                         *)
(* A handler is cut into steps at its statements that touch the database   *)
(* file; code between two such statements works on the request's own       *)
(* objects and belongs to the step of the statement before it.  A request  *)
(* context exists from the arrival of a request to its response; the last  *)
(* response sent is kept.                                                  *)
(***************************************************************************)
VARIABLES
    running,    \* app.run() is serving requests
    db,         \* the committed content of reviews.db
    writer,     \* the request whose connection holds the write lock, or 0
    req,        \* per request context: handler position, locals, connection g._database
    resp,       \* the last response sent, with the request it answers
    received,   \* requests received so far
    appended,   \* the Review objects insert() has completed, in commit order
    rolledback, \* rowids given out by an INSERT whose transaction was rolled back
    atStart,    \* how many inserts had completed when the process last started
    chk         \* a call of SentimentChecker.check: its argument and result

vars == <<running, db, writer, req, resp, received, appended, rolledback, atStart, chk>>

\* A request context nobody is using: no g._database, no locals.
Idle ==
    [pc |-> "idle", text |-> <<>>, review |-> NoReview, txn |-> FALSE,
     cache |-> NoTable, lastrowid |-> None]

\* No response yet.  overlap: the SELECT of the answered GET ran while
\* another connection had a transaction open.
NoResp ==
    [method |-> "", status |-> 0, text |-> <<>>, sentiment |-> "",
     review |-> NoReview, rows |-> <<>>, lastrowid |-> None, overlap |-> FALSE]

\* Texts of request bodies: "", " ", "Хорош".
ReqTexts == { <<>>, <<32>>, <<1061, 1086, 1088, 1086, 1096>> }

\* Request bodies, JSON objects: {}, {"text": null}, {"text": s}.
ReqData ==
    { <<>>, [text |-> JsonNull] } \cup { [text |-> JsonStr(s)] : s \in ReqTexts }

\* Values of ?sentiment=, "" when the argument is absent.
ReqFilters == { "", "positive", "unknown" }

ChkIdle == [pc |-> "idle", text |-> <<>>, label |-> ""]

Init ==
    /\ running = FALSE
    /\ db = NoTable
    /\ writer = 0
    /\ req = [r \in Reqs |-> Idle]
    /\ resp = NoResp
    /\ received = 0
    /\ appended = <<>>
    /\ rolledback = {}
    /\ atStart = 0
    /\ chk = ChkIdle

(***************************************************************************)
(* Process start and stop                                                  *)
(***************************************************************************)
\* __main__: init_db(); app.run()
Start ==
    /\ ~running
    /\ db' = init_db(db)
    /\ running' = TRUE
    /\ atStart' = Len(appended)
    /\ UNCHANGED <<writer, req, resp, received, appended, rolledback, chk>>

\* The process ends: every connection is dropped with its open transaction
\* and its lock; the file keeps what was committed.
Stop ==
    /\ running
    /\ running' = FALSE
    /\ req' = [r \in Reqs |-> Idle]
    /\ writer' = 0
    /\ rolledback' = rolledback \cup {req[r].lastrowid : r \in {q \in Reqs : req[q].txn}}
    /\ UNCHANGED <<db, resp, received, appended, atStart, chk>>

(***************************************************************************)
(* POST /reviews                                                           *)
(***************************************************************************)
ReviewService_add_review_unclassified(text, now) == Review(text, "neutral", now)

\* ReviewService.add_review up to the call of insert: the Review it builds
\* when datetime.utcnow() reads now.
ReviewService_add_review(text, now) == Review(text, check(text), now)

RejectsNoneOnly(text) == text.type = "NoneType"

\* `if not text` of the POST handler.
Rejects(text) == Falsy(text)

\* The context a new request gets: contexts are interchangeable, the free
\* one with the least number is taken.
Free(r) == req[r].pc = "idle" /\ \A q \in Reqs : q < r => req[q].pc # "idle"

\* add_review(): parse, validate and answer 400, or ReviewService() (get_db
\* opens the connection) and add_review up to repo.insert.
add_review(r, data, now) ==
    /\ running
    /\ Free(r)
    /\ received < MaxRequests
    /\ received' = received + 1
    /\ LET text == Get(data, "text")
       IN  IF Rejects(text)
           THEN /\ resp' = [NoResp EXCEPT !.method = "POST", !.status = 400]
                /\ req' = req
           ELSE /\ req' = [req EXCEPT ![r] =
                       [Idle EXCEPT !.pc = "insert", !.text = text.value,
                                    !.review = ReviewService_add_review(text.value, now)]]
                /\ resp' = resp
    /\ UNCHANGED <<running, db, writer, appended, rolledback, atStart, chk>>

CanReserveAlways(r) == TRUE

\* SQLite grants the write lock to one connection at a time.
CanReserve(r) == writer = 0

\* insert(): cursor.execute(INSERT ...) opens a transaction, takes the write
\* lock and changes the connection's own pages.
insert_execute(r) ==
    /\ running
    /\ req[r].pc = "insert"
    /\ CanReserve(r)
    /\ LET cache == SqlInsert(db, InsertParams(req[r].review))
       IN  req' = [req EXCEPT ![r].pc = "commit", ![r].txn = TRUE,
                              ![r].cache = cache, ![r].lastrowid = cache.seq]
    /\ writer' = r
    /\ UNCHANGED <<running, db, resp, received, appended, rolledback, atStart, chk>>

close_connection_commits(d, c) == IF c.txn THEN c.cache ELSE d

\* close_connection: db.close() of connection c rolls back its open
\* transaction; the file d keeps its committed content.
close_connection(d, c) == d

\* The 500 that answers a POST whose add_review raised.
PostError(r) ==
    [NoResp EXCEPT !.method = "POST", !.status = 500, !.text = req[r].text,
                   !.lastrowid = req[r].lastrowid]

\* cursor.execute(INSERT ...) raises (the file is locked past the busy
\* timeout, or cannot be written); the exception leaves add_review and the
\* handler, the answer is 500, close_connection runs.
insert_execute_raises(r) ==
    /\ running
    /\ req[r].pc = "insert"
    /\ db' = close_connection(db, req[r])
    /\ resp' = PostError(r)
    /\ req' = [req EXCEPT ![r] = Idle]
    /\ UNCHANGED <<running, writer, received, appended, rolledback, atStart, chk>>

\* insert(): conn.commit() succeeds, review.id = cursor.lastrowid; the
\* handler answers 201 with the review, close_connection finds no open
\* transaction.
insert_commit(r) ==
    /\ running
    /\ req[r].pc = "commit"
    /\ LET review == [req[r].review EXCEPT !.id = req[r].lastrowid]
       IN  /\ db' = req[r].cache
           /\ resp' = [NoResp EXCEPT !.method = "POST", !.status = 201,
                                     !.text = req[r].text, !.review = review,
                                     !.lastrowid = req[r].lastrowid]
           /\ appended' = Append(appended, review)
    /\ req' = [req EXCEPT ![r] = Idle]
    /\ writer' = IF writer = r THEN 0 ELSE writer
    /\ UNCHANGED <<running, received, rolledback, atStart, chk>>

\* conn.commit() raises (readers kept the file past the busy timeout, or the
\* write failed) with the transaction still open; the exception leaves
\* add_review and the handler, the answer is 500, close_connection runs.
insert_commit_raises(r) ==
    /\ running
    /\ req[r].pc = "commit"
    /\ db' = close_connection(db, req[r])
    /\ rolledback' = rolledback \cup {req[r].lastrowid}
    /\ resp' = PostError(r)
    /\ req' = [req EXCEPT ![r] = Idle]
    /\ writer' = IF writer = r THEN 0 ELSE writer
    /\ UNCHANGED <<running, received, appended, atStart, chk>>

(***************************************************************************)
(* GET /reviews                                                            *)
(***************************************************************************)
VisibleUncommitted(r) ==
    IF \E q \in Reqs : req[q].txn THEN req[CHOOSE q \in Reqs : req[q].txn].cache
    ELSE db

\* What the connection of request r reads: its own open transaction, else
\* the committed file.
Visible(r) == IF req[r].txn THEN req[r].cache ELSE db

\* get_reviews(): read ?sentiment=, ReviewService(), the SELECT and
\* fetchall, answer 200 with the list, close_connection.
get_reviews(r, sentiment) ==
    /\ running
    /\ Free(r)
    /\ received < MaxRequests
    /\ received' = received + 1
    /\ resp' = [NoResp EXCEPT !.method = "GET", !.status = 200, !.sentiment = sentiment,
                              !.rows = get_reviews_by_sentiment(Visible(r), sentiment),
                              !.overlap = (writer # 0)]
    /\ UNCHANGED <<running, db, writer, req, appended, rolledback, atStart, chk>>

\* get_reviews() when cursor.execute(SELECT ...) raises: answer 500.
get_reviews_raises(r, sentiment) ==
    /\ running
    /\ Free(r)
    /\ received < MaxRequests
    /\ received' = received + 1
    /\ resp' = [NoResp EXCEPT !.method = "GET", !.status = 500, !.sentiment = sentiment]
    /\ UNCHANGED <<running, db, writer, req, appended, rolledback, atStart, chk>>

Next ==
    \/ Start
    \/ Stop
    \/ \E r \in Reqs, data \in ReqData, now \in 0..MaxClock : add_review(r, data, now)
    \/ \E r \in Reqs : insert_execute(r)
    \/ \E r \in Reqs : insert_execute_raises(r)
    \/ \E r \in Reqs : insert_commit(r)
    \/ \E r \in Reqs : insert_commit_raises(r)
    \/ \E r \in Reqs, sentiment \in ReqFilters : get_reviews(r, sentiment)
    \/ \E r \in Reqs, sentiment \in ReqFilters : get_reviews_raises(r, sentiment)

Spec == Init /\ [][Next]_vars

(***************************************************************************)
(* Calls of SentimentChecker.check on texts put together from pieces       *)
(***************************************************************************)
\* "хорош", "ХОРОШ", "люблю", "люб", "плохо", "пло", "ненавиж", " ", "и"
Pieces ==
    { <<1093, 1086, 1088, 1086, 1096>>,
      <<1061, 1054, 1056, 1054, 1064>>,
      <<1083, 1102, 1073, 1083, 1102>>,
      <<1083, 1102, 1073>>,
      <<1087, 1083, 1086, 1093, 1086>>,
      <<1087, 1083, 1086>>,
      <<1085, 1077, 1085, 1072, 1074, 1080, 1078>>,
      <<32>>,
      <<1080>> }

RECURSIVE TextsOf(_)
TextsOf(n) ==
    IF n = 0 THEN { <<>> }
    ELSE TextsOf(n - 1) \cup { t \o p : t \in TextsOf(n - 1), p \in Pieces }

Texts == TextsOf(MaxPieces)

InitCheck ==
    /\ running = FALSE
    /\ db = NoTable
    /\ writer = 0
    /\ req = [r \in Reqs |-> Idle]
    /\ resp = NoResp
    /\ received = 0
    /\ appended = <<>>
    /\ rolledback = {}
    /\ atStart = 0
    /\ chk \in { [pc |-> "call", text |-> t, label |-> ""] : t \in Texts }

\* SentimentChecker.check(text) returns.
Check ==
    /\ chk.pc = "call"
    /\ chk' = [chk EXCEPT !.pc = "return", !.label = check(chk.text)]
    /\ UNCHANGED <<running, db, writer, req, resp, received, appended, rolledback, atStart>>

NextCheck == Check

SpecCheck == InitCheck /\ [][NextCheck]_vars

(***************************************************************************)
(* Properties                                                              *)
(***************************************************************************)
Labels == { "positive", "negative", "neutral" }

Range(f) == { f[i] : i \in DOMAIN f }

\* The columns insert() stores for a Review.
Columns(review) == <<review.text, review.sentiment, review.created_at>>

\* C1: the ids of the records returned by successful adds strictly increase
\* in the order the adds complete, also across a stop and a new init_db, so
\* no two records share an id; adds of the same text give records with the
\* same text and sentiment; the record answered with 201 is one of them.
C1_IdsStrictlyIncrease ==
    /\ \A i, j \in DOMAIN appended : i < j => appended[i].id < appended[j].id
    /\ \A i, j \in DOMAIN appended :
          appended[i].text = appended[j].text
             => appended[i].sentiment = appended[j].sentiment
    /\ resp.status = 201 => resp.review \in Range(appended)

\* Two adds of the same text, one before and one after a restart.
C1_Witness ==
    /\ Len(appended) >= 2
    /\ atStart > 0
    /\ atStart < Len(appended)
    /\ appended[atStart].text = appended[atStart + 1].text
    /\ appended[atStart].id < appended[atStart + 1].id
    /\ resp.status = 201
    /\ resp.review = appended[atStart + 1]

\* C2: on every store reached by N successful appends, fetch_all gives
\* exactly those N records in insertion order, each with the id, text,
\* sentiment and created_at that insert stored; the list a GET without filter
\* answered is that sequence for the appends completed when it read.
C2_FetchAllInInsertionOrder ==
    LET all == fetch_all(db)
    IN  /\ all = appended
        /\ \A i, j \in DOMAIN all : i < j => all[i].id < all[j].id
        /\ (resp.method = "GET" /\ resp.status = 200 /\ resp.sentiment = "")
              => /\ Len(resp.rows) <= Len(appended)
                 /\ resp.rows = SubSeq(appended, 1, Len(resp.rows))

C2_Witness ==
    /\ resp.method = "GET" /\ resp.status = 200 /\ resp.sentiment = ""
    /\ Len(resp.rows) = 2
    /\ resp.rows = appended
    /\ resp.rows[1].text # resp.rows[2].text

WithSentiment(reviews, label) == SelectSeq(reviews, LAMBDA rv : rv.sentiment = label)

\* C3: for every store and every label, fetch_by_sentiment gives exactly the
\* stored records with that sentiment, in the order fetch_all gives them, and
\* the empty list for a label that is no sentiment label.
C3_FetchBySentimentIsFilter ==
    LET all == fetch_all(db)
    IN  /\ \A label \in Labels \cup ReqFilters \cup { "Positive" } :
              LET found == fetch_by_sentiment(db, label)
              IN  /\ found = WithSentiment(all, label)
                  /\ label \notin Labels => found = <<>>
        /\ (resp.method = "GET" /\ resp.status = 200 /\ resp.sentiment # "")
              => \E k \in 0..Len(appended) :
                    resp.rows = WithSentiment(SubSeq(appended, 1, k), resp.sentiment)

C3_Witness ==
    /\ resp.method = "GET" /\ resp.status = 200 /\ resp.sentiment = "positive"
    /\ Len(resp.rows) = 1
    /\ Len(appended) = 2
    /\ appended[1].sentiment = "neutral"
    /\ resp.rows[1] = appended[2]

\* Start positions of the occurrences of sub in s.
Occurrences(s, sub) == { i \in 1..Len(s) : MatchAt(s, sub, i) }

\* The largest number of occurrences of sub in s no two of which overlap.
NonOverlapping(s, sub) ==
    LET fits(P) == \A a, b \in P : a < b => a + Len(sub) <= b
        sizes == { Cardinality(P) : P \in { Q \in SUBSET Occurrences(s, sub) : fits(Q) } }
    IN  CHOOSE n \in sizes : \A m \in sizes : m <= n

RECURSIVE Total(_, _, _)
Total(s, markers, k) ==
    IF k > Len(markers) THEN 0
    ELSE NonOverlapping(s, markers[k]) + Total(s, markers, k + 1)

\* C4: check returns positive when the non-overlapping occurrences of the
\* positive markers in the lowercased text outnumber those of the negative
\* markers, negative in the opposite case, neutral otherwise.
C4_ClassifyByMarkerCounts ==
    chk.pc = "return" =>
        LET posCount == Total(Lower(chk.text), POSITIVE, 1)
            negCount == Total(Lower(chk.text), NEGATIVE, 1)
        IN  /\ posCount > negCount => chk.label = "positive"
            /\ negCount > posCount => chk.label = "negative"
            /\ posCount = negCount => chk.label = "neutral"

\* "люблюблюплохо": one non-overlapping "люблю" against one "плохо".
C4_Witness ==
    /\ chk.pc = "return"
    /\ chk.text = <<1083, 1102, 1073, 1083, 1102, 1073, 1083, 1102,
                    1087, 1083, 1086, 1093, 1086>>
    /\ chk.label = "neutral"

\* C5: no two adds are given the same id, also not the adds in flight, and
\* the id answered to a caller is the id of the stored record that holds
\* this caller's text.
C5_ConcurrentAddsGetOwnIds ==
    /\ \A i, j \in DOMAIN appended : i # j => appended[i].id # appended[j].id
    /\ \A r \in Reqs :
          req[r].txn
             => /\ \A i \in DOMAIN appended : appended[i].id # req[r].lastrowid
                /\ \A q \in Reqs : (q # r /\ req[q].txn) => req[q].lastrowid # req[r].lastrowid
    /\ resp.status = 201
          => /\ resp.review.id \in DOMAIN db.reviews
             /\ db.reviews[resp.review.id][1] = resp.text
             /\ resp.review.text = resp.text

\* Two adds in flight at once, one holding id 2 uncommitted and one waiting
\* for the write lock, next to an add of another text answered with id 1.
C5_Witness ==
    /\ resp.status = 201 /\ resp.review.id = 1
    /\ \E r, q \in Reqs :
          /\ req[r].pc = "commit" /\ req[r].lastrowid = 2 /\ req[r].text # resp.text
          /\ req[q].pc = "insert"

\* C6: every record a read returned is a committed record with id, text,
\* sentiment and created_at set; a row inserted by a connection that has not
\* committed is in no list a request was answered.
C6_ReadsSeeOnlyCommitted ==
    (resp.method = "GET" /\ resp.status = 200)
       => /\ \A i \in DOMAIN resp.rows :
                /\ resp.rows[i] \in Range(appended)
                /\ resp.rows[i].id # None
                /\ resp.rows[i].id \in DOMAIN db.reviews
                /\ db.reviews[resp.rows[i].id] = Columns(resp.rows[i])
                /\ resp.rows[i].sentiment \in Labels
          /\ \A q \in Reqs :
                req[q].txn => \A i \in DOMAIN resp.rows : resp.rows[i].id # req[q].lastrowid

\* A read that ran while another connection had inserted and not committed,
\* that connection still not having committed.
C6_Witness ==
    /\ resp.method = "GET" /\ resp.status = 200 /\ resp.overlap
    /\ resp.sentiment = ""
    /\ Len(resp.rows) = 1
    /\ \E q \in Reqs : req[q].txn /\ req[q].pc = "commit" /\ req[q].lastrowid = 2

\* C7: a failed insert or commit leaves no record in the store and consumes
\* no id: the stored records are those of the successful adds, their ids are
\* 1, 2, ... without a gap, and an INSERT in flight holds the next of them.
C7_FailedAddLeavesNoTrace ==
    /\ \A i \in DOMAIN appended : appended[i].id = i
    /\ DOMAIN db.reviews = { appended[i].id : i \in DOMAIN appended }
    /\ db.seq = Len(appended)
    /\ \A q \in Reqs : req[q].txn => req[q].lastrowid = Len(appended) + 1

\* The id given out by an INSERT that was rolled back is the id of the
\* record a later add stored and was answered.
C7_Witness ==
    /\ resp.status = 201
    /\ resp.review.id \in rolledback
    /\ \E i \in DOMAIN appended : appended[i] = resp.review

\* C8: every stored row's sentiment is check of its text and a sentiment
\* label; every record an add stored is still in the store with the text,
\* sentiment and created_at it was stored with.
C8_StoredSentimentAndImmutable ==
    /\ \A id \in DOMAIN db.reviews :
          /\ db.reviews[id][2] = check(db.reviews[id][1])
          /\ db.reviews[id][2] \in Labels
    /\ \A i \in DOMAIN appended :
          /\ appended[i].id \in DOMAIN db.reviews
          /\ db.reviews[appended[i].id] = Columns(appended[i])
          /\ appended[i].sentiment = check(appended[i].text)

\* A positive record stored first, still there after a second add, a
\* restart and a list.
C8_Witness ==
    /\ Len(appended) = 2
    /\ appended[1].sentiment = "positive"
    /\ atStart = 2
    /\ resp.method = "GET" /\ resp.status = 200

\* C9: a GET (a request received that leaves no context in flight and is
\* answered 200) with filter "" answers fetch_all of the store, with any
\* other filter fetch_by_sentiment of it, and changes neither the store nor
\* the write lock.
C9_ListDispatch ==
    [][(received' = received + 1 /\ req' = req
           /\ resp'.method = "GET" /\ resp'.status = 200)
          => /\ resp'.rows =
                   IF resp'.sentiment = "" THEN fetch_all(db)
                   ELSE fetch_by_sentiment(db, resp'.sentiment)
             /\ db' = db
             /\ writer' = writer
             /\ appended' = appended]_vars

\* A list of a store with one neutral record for the filter positive.
C9_Witness ==
    /\ resp.method = "GET" /\ resp.status = 200 /\ resp.sentiment = "positive"
    /\ resp.rows = <<>>
    /\ Len(appended) = 1
    /\ appended[1].sentiment = "neutral"

\* str.isspace() of one code point, for ASCII and Latin-1.
IsSpace(c) == c \in {9, 10, 11, 12, 13, 28, 29, 30, 31, 32, 133, 160}

\* str.strip()
RECURSIVE Strip(_)
Strip(s) ==
    IF s = <<>> THEN s
    ELSE IF IsSpace(Head(s)) THEN Strip(Tail(s))
    ELSE IF IsSpace(s[Len(s)]) THEN Strip(SubSeq(s, 1, Len(s) - 1))
    ELSE s

\* add_review of ReviewService has been called in request context r.
AddCalled(r) == req[r].pc \in {"insert", "commit"}

====
